---- MODULE Spec2Model ----
(***************************************************************************)
(* Hierarchical state-machine engine (models/state_machine.py) together    *)
(* with the state catalogs that ship with it (StandardStates,              *)
(* CalibrationStates, FATProcedureStates, FATProdecureSuperStates).        *)
(*                                                                         *)
(* Representation                                                          *)
(*   enum member   <<class name, member name>>          (NoEnum = None)    *)
(*   live QState   path of member names from the machine root              *)
(*                                                       (NoNode = None)   *)
(*   descriptor    record with the fields of StateDescriptor, the          *)
(*                 TransitionsDescriptor flattened into `transitions`      *)
(*                                                                         *)
(* The QStateMachine semantics the engine relies on (selection of the      *)
(* enabled transition from the deepest active state upwards, exit set,     *)
(* entry set with initial-state descent, finished signals) are modelled    *)
(* in MicroStep and its helpers.                                           *)
(***************************************************************************)
EXTENDS Integers, Sequences, FiniteSets, TLC

VARIABLES
    enums,            \* class name -> sequence of StateDescriptor (incl. the mutable `parent`)
    states_enum,      \* self._states_enum : name of the top-level catalog
    parents,          \* self._parents : [is_none, list of observers]
    pc,               \* "new" | "failed" | "constructed" | "running" | "finished"
    index,            \* self._states : insertion-ordered sequence of <<enum, node>>
    qstates,          \* node -> QState/QFinalState object (final, initial child, transitions, slots)
    machine,          \* self._machine : [initial state, slots of its finished signal]
    configuration,    \* active states of self._machine, root to leaf
    current_state,    \* self._current_state
    previous_state,   \* self._previous_state
    delivered,        \* observer callbacks run by the latest operation, in order
    result,           \* value returned by the latest current_state_tree read
    error,            \* exception raised by the latest operation, or None
    tests             \* MyTestModel.tests

vars == <<enums, states_enum, parents, pc, index, qstates, machine,
          configuration, current_state, previous_state, delivered, result, error,
          tests>>

None == "<None>"
NoEnum == <<>>
NoNode == <<>>

----------------------------------------------------------------------------
(* Descriptors *)

NoTransitions ==
    [present |-> FALSE, is_tuple |-> FALSE, next_state |-> <<>>,
     prev_state |-> None, optional |-> <<>>]

\* TransitionsDescriptor(next_state, prev_state, optional) with a single name
\* (or None) as next_state.
TransitionsDescriptor(next, prev, optional) ==
    [present |-> TRUE, is_tuple |-> FALSE,
     next_state |-> IF next = None THEN <<>> ELSE <<next>>,
     prev_state |-> prev, optional |-> optional]

\* TransitionsDescriptor((n0, n1, ...), prev_state, optional)
TransitionsTuple(names, prev, optional) ==
    [present |-> TRUE, is_tuple |-> TRUE, next_state |-> names,
     prev_state |-> prev, optional |-> optional]

StateDescriptor(name, transitions, sub_states, initial, final) ==
    [name |-> name, transitions |-> transitions, sub_states |-> sub_states,
     initial |-> initial, final |-> final, parent |-> NoEnum]

StandardStates ==
    << StateDescriptor("IDLE", TransitionsDescriptor("STARTING", "IDLE", <<"STOPPING", "ERROR">>), None, TRUE, FALSE),
       StateDescriptor("STARTING", TransitionsDescriptor("EXECUTE", None, <<"STOPPING", "ERROR">>), None, FALSE, FALSE),
       StateDescriptor("EXECUTE", TransitionsDescriptor("COMPLETE", None, <<"STOPPING", "ERROR">>), None, FALSE, FALSE),
       StateDescriptor("COMPLETE", NoTransitions, None, FALSE, FALSE),
       StateDescriptor("STOPPING", TransitionsDescriptor("STOPPED", "STOPPING", <<"ERROR">>), None, FALSE, FALSE),
       StateDescriptor("STOPPED", TransitionsDescriptor("IDLE", None, <<"ERROR">>), None, FALSE, FALSE),
       StateDescriptor("ABORTING", TransitionsDescriptor("ABORTED", "ABORTING", <<"ERROR">>), None, FALSE, FALSE),
       StateDescriptor("ABORTED", TransitionsDescriptor("RESETTING", None, <<"ERROR">>), None, FALSE, FALSE),
       StateDescriptor("RESETTING", TransitionsDescriptor("IDLE", "RESETTING", <<"ERROR">>), None, FALSE, FALSE),
       StateDescriptor("ERROR", TransitionsDescriptor("RESETTING", "IDLE", <<"ERROR">>), None, FALSE, FALSE) >>

\* copy_enum: the k-th call (k = 0, 1, ...) with the same to_name yields a new
\* Enum class named to_name, to_name1, to_name2, ... holding deep copies of the
\* template's descriptors.
\* copy_enum that gives every copy the name asked for, so that the copies
\* under one to_name are one and the same Enum class.
copy_enum_nameShared(to_name, k) == to_name

copy_enum_name(to_name, k) ==
    IF k = 0 THEN to_name ELSE to_name \o ToString(k)

CalibrationStates ==
    << StateDescriptor("IDLE", TransitionsDescriptor("INITIALZING", None, <<"STOPPING", "ERROR">>), None, TRUE, FALSE),
       StateDescriptor("INITIALZING", TransitionsDescriptor("CALIBRATION_1", None, <<"ERROR">>), None, FALSE, FALSE),
       StateDescriptor("CALIBRATION_1", TransitionsDescriptor("CALIBRATION_2", None, <<"ERROR">>), copy_enum_name("CalibrationProcedure", 0), FALSE, FALSE),
       StateDescriptor("CALIBRATION_2", TransitionsDescriptor("CALIBRATION_3", None, <<"ERROR">>), copy_enum_name("CalibrationProcedure", 1), FALSE, FALSE),
       StateDescriptor("CALIBRATION_3", TransitionsDescriptor("CALIBRATION_4", None, <<"ERROR">>), copy_enum_name("CalibrationProcedure", 2), FALSE, FALSE),
       StateDescriptor("CALIBRATION_4", TransitionsDescriptor("CALIBRATION_5", None, <<"ERROR">>), copy_enum_name("CalibrationProcedure", 3), FALSE, FALSE),
       StateDescriptor("CALIBRATION_5", TransitionsDescriptor("CALIBRATION_6", None, <<"ERROR">>), copy_enum_name("CalibrationProcedure", 4), FALSE, FALSE),
       StateDescriptor("CALIBRATION_6", TransitionsDescriptor("VERYFING", None, <<"ERROR">>), copy_enum_name("CalibrationProcedure", 5), FALSE, FALSE),
       StateDescriptor("VERYFING", TransitionsDescriptor("COMPLETING", None, <<"ERROR">>), copy_enum_name("CalibrationProcedure", 6), FALSE, FALSE),
       StateDescriptor("COMPLETING", TransitionsDescriptor("COMPLETED", None, <<"ERROR">>), copy_enum_name("CalibrationProcedure", 7), FALSE, FALSE),
       StateDescriptor("COMPLETED", NoTransitions, None, FALSE, TRUE),
       StateDescriptor("STOPPING", TransitionsDescriptor("STOPPED", None, <<"ERROR">>), None, FALSE, FALSE),
       StateDescriptor("STOPPED", TransitionsDescriptor("IDLE", None, <<"ERROR">>), None, FALSE, FALSE),
       StateDescriptor("ABORTING", TransitionsDescriptor("ABORTED", None, <<"ERROR">>), None, FALSE, FALSE),
       StateDescriptor("ABORTED", TransitionsDescriptor("RESETTING", None, <<"ERROR">>), None, FALSE, FALSE),
       StateDescriptor("RESETTING", TransitionsDescriptor("IDLE", None, <<"ERROR">>), None, FALSE, FALSE),
       StateDescriptor("ERROR", TransitionsDescriptor("RESETTING", None, <<"ERROR">>), None, FALSE, FALSE) >>

FATProcedureStates ==
    << StateDescriptor("IDLE", TransitionsDescriptor("INITIALZING", "IDLE", <<"STOPPING", "ERROR">>), None, TRUE, FALSE),
       StateDescriptor("INITIALZING", TransitionsTuple(<<"FAT_PROCEDURE_1", "FAT_PROCEDURE_2", "FAT_PROCEDURE_3">>, None, <<"ERROR">>), None, FALSE, FALSE),
       StateDescriptor("FAT_PROCEDURE_1", TransitionsDescriptor("FAT_PROCEDURE_2", None, <<"ERROR">>), copy_enum_name("FatSubProcedureStates_1", 0), FALSE, FALSE),
       StateDescriptor("FAT_PROCEDURE_2", TransitionsDescriptor("FAT_PROCEDURE_3", None, <<"ERROR">>), copy_enum_name("FatSubProcedureStates_2", 0), FALSE, FALSE),
       StateDescriptor("FAT_PROCEDURE_3", TransitionsDescriptor("FAT_PROCEDURE_4", None, <<"ERROR">>), copy_enum_name("FatSubProcedureStates_3", 0), FALSE, FALSE),
       StateDescriptor("FAT_PROCEDURE_4", TransitionsDescriptor("FAT_PROCEDURE_5", None, <<"ERROR">>), copy_enum_name("FatSubProcedureStates_4", 0), FALSE, FALSE),
       StateDescriptor("FAT_PROCEDURE_5", TransitionsDescriptor("FAT_PROCEDURE_6", None, <<"ERROR">>), copy_enum_name("FatSubProcedureStates_5", 0), FALSE, FALSE),
       StateDescriptor("FAT_PROCEDURE_6", TransitionsDescriptor("VERYFING", None, <<"ERROR">>), copy_enum_name("FatSubProcedureStates_6", 0), FALSE, FALSE),
       StateDescriptor("VERYFING", TransitionsDescriptor("COMPLETING", None, <<"ERROR">>), copy_enum_name("FatVerifyingStates", 0), FALSE, FALSE),
       StateDescriptor("COMPLETING", TransitionsDescriptor("COMPLETED", None, <<"ERROR">>), copy_enum_name("FatCompletingStates", 0), FALSE, FALSE),
       StateDescriptor("COMPLETED", NoTransitions, None, FALSE, TRUE),
       StateDescriptor("STOPPING", TransitionsDescriptor("STOPPED", "STOPPING", <<"ERROR">>), None, FALSE, FALSE),
       StateDescriptor("STOPPED", TransitionsDescriptor("IDLE", None, <<"ERROR">>), None, FALSE, FALSE),
       StateDescriptor("ABORTING", TransitionsDescriptor("ABORTED", "ABORTING", <<"ERROR">>), None, FALSE, FALSE),
       StateDescriptor("ABORTED", TransitionsDescriptor("RESETTING", None, <<"ERROR">>), None, FALSE, FALSE),
       StateDescriptor("RESETTING", TransitionsDescriptor("IDLE", "RESETTING", <<"ERROR">>), None, FALSE, FALSE),
       StateDescriptor("ERROR", TransitionsDescriptor("RESETTING", "ERROR", <<"ERROR">>), None, FALSE, FALSE) >>

FATProdecureSuperStates ==
    << StateDescriptor("IDLE", TransitionsDescriptor("STARTING", "IDLE", <<"STOPPING", "ERROR">>), None, TRUE, FALSE),
       StateDescriptor("STARTING", TransitionsDescriptor("EXECUTE", None, <<"STOPPING", "ERROR">>), None, FALSE, FALSE),
       StateDescriptor("EXECUTE", TransitionsDescriptor("COMPLETE", None, <<"STOPPING", "ERROR">>), "FATProcedureStates", FALSE, FALSE),
       StateDescriptor("COMPLETE", NoTransitions, None, FALSE, FALSE),
       StateDescriptor("STOPPING", TransitionsDescriptor("STOPPED", "STOPPING", <<"ERROR">>), None, FALSE, FALSE),
       StateDescriptor("STOPPED", TransitionsDescriptor("IDLE", None, <<"ERROR">>), None, FALSE, FALSE),
       StateDescriptor("ABORTING", TransitionsDescriptor("ABORTED", "ABORTING", <<"ERROR">>), None, FALSE, FALSE),
       StateDescriptor("ABORTED", TransitionsDescriptor("RESETTING", None, <<"ERROR">>), None, FALSE, FALSE),
       StateDescriptor("RESETTING", TransitionsDescriptor("IDLE", "RESETTING", <<"ERROR">>), None, FALSE, FALSE),
       StateDescriptor("ERROR", TransitionsDescriptor("RESETTING", "IDLE", <<"ERROR">>), None, FALSE, FALSE) >>

----------------------------------------------------------------------------
(* Observers (the `parents` argument of the engine) *)

StateEventHandlerMethods ==
    {"machine_finished", "state_entered", "state_finished", "state_exited"}

\* CalibrationModel logs `parent.state` of the entered state.
CalibrationModel ==
    [name |-> "CalibrationModel", methods |-> StateEventHandlerMethods, logs_tree |-> FALSE]

\* ControllerMain forwards the entered state to the view.
ControllerMain ==
    [name |-> "ControllerMain", methods |-> StateEventHandlerMethods, logs_tree |-> FALSE]

\* FATProdedureModel logs current_state_tree of the engine on every state_entered.
FATProdedureModel ==
    [name |-> "FATProdedureModel", methods |-> StateEventHandlerMethods, logs_tree |-> TRUE]

\* A StateEventHandler that also binds handlers to specific states by the
\* naming convention state_<state-name>_<event> and
\* state_<state-name>__<sub-state-name>_<event>.
HookHandler ==
    [name |-> "HookHandler",
     methods |-> StateEventHandlerMethods
                 \cup {"state_running_entered", "state_running_exited",
                       "state_running_finished", "state_running__idle_exited",
                       "state_running__done_entered"},
     logs_tree |-> FALSE]

ParentsList(list) == [is_none |-> FALSE, list |-> list]
ParentsNone == [is_none |-> TRUE, list |-> <<>>]

----------------------------------------------------------------------------
(* Name formatting *)

\* str.lower() on the state names that occur in the catalogs.
Lower(name) ==
    CASE name = "IDLE" -> "idle"
      [] name = "STARTING" -> "starting"
      [] name = "EXECUTE" -> "execute"
      [] name = "COMPLETE" -> "complete"
      [] name = "STOPPING" -> "stopping"
      [] name = "STOPPED" -> "stopped"
      [] name = "ABORTING" -> "aborting"
      [] name = "ABORTED" -> "aborted"
      [] name = "RESETTING" -> "resetting"
      [] name = "ERROR" -> "error"
      [] name = "INITIALZING" -> "initialzing"
      [] name = "VERYFING" -> "veryfing"
      [] name = "COMPLETING" -> "completing"
      [] name = "COMPLETED" -> "completed"
      [] name = "CALIBRATION_1" -> "calibration_1"
      [] name = "CALIBRATION_2" -> "calibration_2"
      [] name = "CALIBRATION_3" -> "calibration_3"
      [] name = "CALIBRATION_4" -> "calibration_4"
      [] name = "CALIBRATION_5" -> "calibration_5"
      [] name = "CALIBRATION_6" -> "calibration_6"
      [] name = "FAT_PROCEDURE_1" -> "fat_procedure_1"
      [] name = "FAT_PROCEDURE_2" -> "fat_procedure_2"
      [] name = "FAT_PROCEDURE_3" -> "fat_procedure_3"
      [] name = "FAT_PROCEDURE_4" -> "fat_procedure_4"
      [] name = "FAT_PROCEDURE_5" -> "fat_procedure_5"
      [] name = "FAT_PROCEDURE_6" -> "fat_procedure_6"
      [] name = "RUNNING" -> "running"
      [] name = "DONE" -> "done"
      [] name = "NOWHERE" -> "nowhere"
      [] OTHER -> name

_signal_format(state_name) == "to_" \o Lower(state_name)

\* Signals declared on StateMachineModel: what hasattr(self, "to_...") finds.
EngineSignals ==
    {"to_previous", "to_next", "to_option", "to_error", "to_stopping", "skip"}

----------------------------------------------------------------------------
(* Catalog and Index lookups *)

IsMember(en, cls, name) ==
    /\ cls \in DOMAIN en
    /\ \E i \in 1..Len(en[cls]) : en[cls][i].name = name

\* state_enum.value
Desc(en, key) ==
    LET s == en[key[1]]
    IN  s[CHOOSE i \in 1..Len(s) : s[i].name = key[2]]

\* self._states[key]; NoNode stands for KeyError
IndexGet(idx, key) ==
    IF \E i \in 1..Len(idx) : idx[i][1] = key
    THEN idx[CHOOSE i \in 1..Len(idx) : idx[i][1] = key][2]
    ELSE NoNode

\* self._states[key] = node : a dict keeps the position of an existing key
IndexPut(idx, key, node) ==
    IF \E i \in 1..Len(idx) : idx[i][1] = key
    THEN [i \in 1..Len(idx) |-> IF idx[i][1] = key THEN <<key, node>> ELSE idx[i]]
    ELSE Append(idx, <<key, node>>)

\* SearchDict.reverse_search: first key, in insertion order, whose value is
\* the node; NoEnum stands for the result None.
reverse_search(idx, node) ==
    IF \E i \in 1..Len(idx) : idx[i][2] = node
    THEN LET first == CHOOSE i \in 1..Len(idx) :
                          /\ idx[i][2] = node
                          /\ \A j \in 1..(i - 1) : idx[j][2] # node
         IN  idx[first][1]
    ELSE NoEnum

Front(path) == SubSeq(path, 1, Len(path) - 1)

----------------------------------------------------------------------------
(* Construction: node tree, Index, observer wiring *)

\* state_<name>_<suffix> for a top-level state,
\* state_<parent>__<name>_<suffix> for a substate.
_format_state_substate(en, key, suffix) ==
    LET d == Desc(en, key)
        fmt == IF d.parent # NoEnum
               THEN "state_" \o Lower(d.parent[2]) \o "__" \o Lower(key[2])
               ELSE "state_" \o Lower(key[2])
    IN  fmt \o "_" \o suffix

HookSlot(i, method, node, key) ==
    [kind |-> "hook", obs |-> i, method |-> method, state |-> node, enum |-> key]

GenericSlot(i, method, node, key) ==
    [kind |-> "generic", obs |-> i, method |-> method, state |-> node, enum |-> key]

UpdateLinkSlot(node, key) ==
    [kind |-> "update_link_attrs", obs |-> 0, method |-> "_update_link_attrs",
     state |-> node, enum |-> key]

\* The connections one observer adds to state.entered: the three
\* name-convention hooks it implements (entered, finished and exited hook
\* alike are connected to state.entered), then its generic state_entered.
EnteredSlots(methods, i, node, key, entered, finished, exited) ==
    (IF entered \in methods THEN <<HookSlot(i, entered, node, key)>> ELSE <<>>)
    \o (IF finished \in methods THEN <<HookSlot(i, finished, node, key)>> ELSE <<>>)
    \o (IF exited \in methods THEN <<HookSlot(i, exited, node, key)>> ELSE <<>>)
    \o (IF "state_entered" \in methods
        THEN <<GenericSlot(i, "state_entered", node, key)>> ELSE <<>>)

EnteredSlotsOf(par, i, en, node, key) ==
    EnteredSlots(par.list[i].methods, i, node, key,
                 _format_state_substate(en, key, "entered"),
                 _format_state_substate(en, key, "finished"),
                 _format_state_substate(en, key, "exited"))

RECURSIVE ConnectEntered(_, _, _, _, _)
ConnectEntered(par, i, en, node, key) ==
    IF i > Len(par.list) THEN <<>>
    ELSE EnteredSlotsOf(par, i, en, node, key) \o ConnectEntered(par, i + 1, en, node, key)

\* state.finished / state.exited get the generic callback of every observer
\* that has it, unless the state is a QFinalState.
RECURSIVE ConnectGeneric(_, _, _, _, _, _)
ConnectGeneric(par, i, method, final, node, key) ==
    IF i > Len(par.list) THEN <<>>
    ELSE (IF method \in par.list[i].methods /\ ~final
          THEN <<GenericSlot(i, method, node, key)>> ELSE <<>>)
         \o ConnectGeneric(par, i + 1, method, final, node, key)

\* The slot lists [entered, finished, exited] wired by
\* _connect_events_to_parents for one state.  The hooks looked up on the
\* engine itself (hasattr(self, "state_..._entered")) never exist:
\* StateMachineModel defines no method of that form.
_connect_events_to_parents(par, en, node, key, final) ==
    IF par.is_none
    THEN [entered |-> <<>>, finished |-> <<>>, exited |-> <<>>]
    ELSE [entered |-> ConnectEntered(par, 1, en, node, key),
          finished |-> ConnectGeneric(par, 1, "state_finished", final, node, key),
          exited |-> ConnectGeneric(par, 1, "state_exited", final, node, key)]

\* NewState with _update_link_attrs connected after the observers' callbacks.
NewStateUpdatingLast(final, node, key, conn) ==
    [final |-> final, initial |-> NoNode, transitions |-> <<>>,
     entered |-> conn.entered \o <<UpdateLinkSlot(node, key)>>,
     finished |-> conn.finished, exited |-> conn.exited]

\* QState(parent=...) or QFinalState(parent=...), with
\* state.entered.connect(partial(self._update_link_attrs, state)) first.
NewState(final, node, key, conn) ==
    [final |-> final, initial |-> NoNode, transitions |-> <<>>,
     entered |-> <<UpdateLinkSlot(node, key)>> \o conn.entered,
     finished |-> conn.finished, exited |-> conn.exited]

\* AddState that makes every new state its owner's initial state, whatever
\* the descriptor says: the state created last ends up as the initial one.
AddStateAnyInitial(acc, owner, node, state, initial) ==
    [acc EXCEPT !.qstates = IF owner # NoNode
                            THEN [((node :> state) @@ @) EXCEPT ![owner].initial = node]
                            ELSE (node :> state) @@ @,
                !.machine_initial = IF owner = NoNode THEN node ELSE @,
                !.created = node]

\* The new state joins its owner, and becomes the owner's initial state
\* when the descriptor says so.  acc = [enums, index, qstates,
\* machine_initial, created]; `owner` is the node of the parent QState,
\* NoNode for the QStateMachine itself.
AddState(acc, owner, node, state, initial) ==
    [acc EXCEPT !.qstates = IF initial /\ owner # NoNode
                            THEN [((node :> state) @@ @) EXCEPT ![owner].initial = node]
                            ELSE (node :> state) @@ @,
                !.machine_initial = IF initial /\ owner = NoNode THEN node ELSE @,
                !.created = node]

CreateStateFrom(acc, par, owner, key, d, node) ==
    AddState(acc, owner, node,
             NewState(d.final, node, key,
                      _connect_events_to_parents(par, acc.enums, node, key, d.final)),
             d.initial)

_create_state(acc, par, owner, key) ==
    CreateStateFrom(acc, par, owner, key, Desc(acc.enums, key), Append(owner, key[2]))

\* sub_state_enum.value.parent = state_enum
SetParent(en, cls, i, parent_key) ==
    [en EXCEPT ![cls] = [@ EXCEPT ![i] = [@ EXCEPT !.parent = parent_key]]]

RECURSIVE CreateMembers(_, _, _, _, _, _)

\* CreateSubStates that creates no substate.
CreateSubStatesNone(acc, par, node, key, sub) == acc

\* The loop over state_enum.value.sub_states, if there are any.
CreateSubStates(acc, par, node, key, sub) ==
    IF sub = None THEN acc ELSE CreateMembers(acc, par, node, key, sub, 1)

AssignState(acc, par, key, cls, i) ==
    CreateSubStates([acc EXCEPT !.index = IndexPut(@, key, acc.created)],
                    par, acc.created, key, acc.enums[cls][i].sub_states)

\* _create_and_assign_state for member i of class cls, created under `owner`.
_create_and_assign_state(acc, par, owner, cls, i) ==
    AssignState(_create_state(acc, par, owner, <<cls, acc.enums[cls][i].name>>),
                par, <<cls, acc.enums[cls][i].name>>, cls, i)

\* The loop over the members i.. of class cls; parent_key is the enclosing
\* state's enum (NoEnum for the top-level loop of __init__), written into
\* each member's descriptor before the member is created.
CreateMembers(acc, par, owner, parent_key, cls, i) ==
    IF i > Len(acc.enums[cls]) THEN acc
    ELSE CreateMembers(
             _create_and_assign_state(
                 IF parent_key = NoEnum THEN acc
                 ELSE [acc EXCEPT !.enums = SetParent(@, cls, i, parent_key)],
                 par, owner, cls, i),
             par, owner, parent_key, cls, i + 1)

CreateAll(en, par, top) ==
    CreateMembers([enums |-> en, index |-> <<>>, qstates |-> << >>,
                   machine_initial |-> NoNode, created |-> NoNode],
                  par, NoNode, NoEnum, top, 1)

----------------------------------------------------------------------------
(* Construction: transition wiring.  w = [qstates, error] *)

\* Scoped name resolution; NoEnum stands for the KeyError of Enum[target_name].
ScopeOf(en, top, d) ==
    IF d.parent # NoEnum THEN Desc(en, d.parent).sub_states ELSE top

ResolveIn(en, cls, target_name) ==
    IF IsMember(en, cls, target_name) THEN <<cls, target_name>> ELSE NoEnum

_target_state_name_to_enum(en, top, key, target_name) ==
    ResolveIn(en, ScopeOf(en, top, Desc(en, key)), target_name)

\* self._states[enum] of a resolved enum; NoNode stands for KeyError, of the
\* resolution or of the Index.
StateOf(idx, enum) == IF enum = NoEnum THEN NoNode ELSE IndexGet(idx, enum)

TargetState(en, top, idx, key, target_name) ==
    StateOf(idx, _target_state_name_to_enum(en, top, key, target_name))

PlainTransition(signal, target) ==
    [signal |-> signal, guarded |-> FALSE,
     option |-> [num |-> -1, name |-> None, enum |-> NoEnum],
     target |-> target]

\* OptionTransition((num, option_state_name, option_state_enum), to_option)
OptionTransition(num, name, enum, target) ==
    [signal |-> "to_option", guarded |-> TRUE,
     option |-> [num |-> num, name |-> name, enum |-> enum],
     target |-> target]

\* QState.addTransition
addTransition(w, node, t) ==
    [w EXCEPT !.qstates[node].transitions = Append(@, t)]

Raise(w, exc) == [w EXCEPT !.error = exc]

\* isinstance(state, QFinalState)
IsFinalState(w, node) == w.qstates[node].final

\* NextEdge without the addTransition call.
NextEdgeDropped(w, node, target_state) ==
    IF target_state = NoNode THEN Raise(w, "KeyError") ELSE w

NextEdge(w, node, target_state) ==
    IF target_state = NoNode THEN Raise(w, "KeyError")
    ELSE IF ~IsFinalState(w, node)
         THEN addTransition(w, node, PlainTransition("to_next", target_state))
         ELSE w

\* next is the single next_state: <<>> for None, <<name>> otherwise.
_add_next_transition(w, en, top, idx, key, node, next) ==
    IF next = <<>> THEN w
    ELSE NextEdge(w, node, TargetState(en, top, idx, key, next[1]))

OverrideEdge(w, target_state, override_state) ==
    IF override_state = NoNode THEN Raise(w, "KeyError")
    ELSE addTransition(w, target_state, PlainTransition("to_previous", override_state))

\* The reverse edge out of target_state, whose descriptor declares
\* prev_state = prev, for the forward edge node -> target_state.
PrevEdge(w, en, top, idx, key, node, target_state_name, target_state, prev) ==
    IF IsFinalState(w, target_state) THEN w
    ELSE IF prev = None
         THEN addTransition(w, target_state, PlainTransition("to_previous", node))
    ELSE IF prev # key[2] /\ prev # target_state_name
         THEN OverrideEdge(w, target_state, TargetState(en, top, idx, key, prev))
    ELSE w

PrevEdgeOf(w, en, top, idx, key, node, target_state_name, target_enum) ==
    IF StateOf(idx, target_enum) = NoNode THEN Raise(w, "KeyError")
    ELSE PrevEdge(w, en, top, idx, key, node, target_state_name,
                  StateOf(idx, target_enum),
                  Desc(en, target_enum).transitions.prev_state)

_add_prev_transition(w, en, top, idx, key, node, target_state_name) ==
    PrevEdgeOf(w, en, top, idx, key, node, target_state_name,
               _target_state_name_to_enum(en, top, key, target_state_name))

OptionEdge(w, node, num, option_state_name, option_enum, option_state) ==
    IF option_state = NoNode THEN Raise(w, "KeyError")
    ELSE IF IsFinalState(w, node) THEN w
    ELSE addTransition(IF num = 0
                       THEN addTransition(w, node, PlainTransition("to_next", option_state))
                       ELSE w,
                       node,
                       OptionTransition(num, option_state_name, option_enum, option_state))

OptionEdgeOf(w, idx, node, num, option_state_name, option_enum) ==
    OptionEdge(w, node, num, option_state_name, option_enum, StateOf(idx, option_enum))

\* num is the 0-based position of option_state_name in the next_state tuple.
_add_option_transitions(w, en, top, idx, key, node, num, option_state_name) ==
    OptionEdgeOf(w, idx, node, num, option_state_name,
                 _target_state_name_to_enum(en, top, key, option_state_name))

OptionalEdge(w, node, signal, target_state) ==
    IF signal \notin EngineSignals THEN Raise(w, "AttributeError")
    ELSE IF target_state = NoNode THEN Raise(w, "KeyError")
    ELSE addTransition(w, node, PlainTransition(signal, target_state))

RECURSIVE AddOptionalFrom(_, _, _, _, _, _, _, _)
AddOptionalFrom(w, en, top, idx, key, node, optional, i) ==
    IF w.error # None \/ i > Len(optional) THEN w
    ELSE AddOptionalFrom(
             OptionalEdge(w, node, _signal_format(optional[i]),
                          TargetState(en, top, idx, key, optional[i])),
             en, top, idx, key, node, optional, i + 1)

\* _add_optional_transitions without its QFinalState guard.
AddOptionalToFinal(w, en, top, idx, key, node, optional) ==
    AddOptionalFrom(w, en, top, idx, key, node, optional, 1)

_add_optional_transitions(w, en, top, idx, key, node, optional) ==
    IF IsFinalState(w, node) THEN w
    ELSE AddOptionalFrom(w, en, top, idx, key, node, optional, 1)

\* The next statement of the wiring loop runs unless the one before raised.
ThenPrev(w, en, top, idx, key, node, target_state_name) ==
    IF w.error # None THEN w
    ELSE _add_prev_transition(w, en, top, idx, key, node, target_state_name)

ThenOptional(w, en, top, idx, key, node, optional) ==
    IF w.error # None THEN w
    ELSE _add_optional_transitions(w, en, top, idx, key, node, optional)

\* The loop over enumerate(next_state) of a tuple next_state.
RECURSIVE AddOptionsFrom(_, _, _, _, _, _, _, _)
AddOptionsFrom(w, en, top, idx, key, node, names, i) ==
    IF w.error # None \/ i > Len(names) THEN w
    ELSE AddOptionsFrom(
             ThenPrev(_add_option_transitions(w, en, top, idx, key, node, i - 1, names[i]),
                      en, top, idx, key, node, names[i]),
             en, top, idx, key, node, names, i + 1)

NextAndPrev(w, en, top, idx, key, node, next) ==
    ThenPrev(_add_next_transition(w, en, top, idx, key, node, next),
             en, top, idx, key, node, IF next = <<>> THEN None ELSE next[1])

\* The body of the loop of _add_transitions for one Index entry whose
\* descriptor has the transitions tr.
WireWith(w, en, top, idx, key, node, tr) ==
    IF ~tr.present THEN w
    ELSE ThenOptional(IF tr.is_tuple
                      THEN AddOptionsFrom(w, en, top, idx, key, node, tr.next_state, 1)
                      ELSE NextAndPrev(w, en, top, idx, key, node, tr.next_state),
                      en, top, idx, key, node, tr.optional)

WireState(w, en, top, idx, key, node) ==
    WireWith(w, en, top, idx, key, node, Desc(en, key).transitions)

RECURSIVE WireFrom(_, _, _, _, _)
WireFrom(w, en, top, idx, i) ==
    IF w.error # None \/ i > Len(idx) THEN w
    ELSE WireFrom(WireState(w, en, top, idx, idx[i][1], idx[i][2]), en, top, idx, i + 1)

_add_transitions(qs, en, top, idx) ==
    WireFrom([qstates |-> qs, error |-> None], en, top, idx, 1)

\* The observers whose machine_finished is connected to machine.finished.
_connect_machine_finished(par) ==
    IF par.is_none THEN <<>>
    ELSE SelectSeq([i \in 1..Len(par.list) |-> i],
                   LAMBDA i : "machine_finished" \in par.list[i].methods)

\* What __init__ builds from the created tree: [enums, index, qstates,
\* machine, error]
Wired(acc, w, par) ==
    [enums |-> acc.enums, index |-> acc.index, qstates |-> w.qstates,
     machine |-> [initial |-> acc.machine_initial,
                  finished |-> _connect_machine_finished(par)],
     error |-> w.error]

WireAll(acc, par, top) ==
    Wired(acc, _add_transitions(acc.qstates, acc.enums, top, acc.index), par)

\* StateMachineModel.__init__ after the observers are stored.
construct(en, par, top) == WireAll(CreateAll(en, par, top), par, top)

----------------------------------------------------------------------------
(* Queries *)

\* The depth guard of current_state_tree.
DepthGuard == 100

\* The loop of current_state_tree: state_enum is already in the tree, n
\* counts the passes made; the value is the tree from state_enum on, in the
\* order appended (leaf first).
RECURSIVE WalkParents(_, _, _)
WalkParents(en, state_enum, n) ==
    <<state_enum>>
    \o (IF n < DepthGuard /\ Desc(en, state_enum).parent # NoEnum
        THEN WalkParents(en, Desc(en, state_enum).parent, n + 1)
        ELSE <<>>)

Reverse(s) == [i \in 1..Len(s) |-> s[Len(s) + 1 - i]]

\* TreeOf without tree.reverse().
TreeOfUnreversed(en, state_enum) ==
    IF state_enum = NoEnum
    THEN [error |-> "AttributeError", tree |-> <<>>]
    ELSE [error |-> None, tree |-> WalkParents(en, state_enum, 0)]

TreeOf(en, state_enum) ==
    IF state_enum = NoEnum
    THEN [error |-> "AttributeError", tree |-> <<>>]
    ELSE [error |-> None,
          tree |-> Reverse(WalkParents(en, state_enum, 0))]

\* [error, tree]: reverse_search of a node that is not in the Index gives
\* None, whose .value raises AttributeError.
current_state_tree(idx, en, cur) == TreeOf(en, reverse_search(idx, cur))

\* current_state_enum
current_state_enum == reverse_search(index, current_state)

----------------------------------------------------------------------------
(* Run time: signals and slots.  st = [current, previous, delivered] *)

_update_link_attrs(st, state) ==
    IF st.current = NoNode
    THEN [st EXCEPT !.current = state]
    ELSE [st EXCEPT !.previous = st.current, !.current = state]

\* One observer callback: what it is called with, on which signal, the
\* engine's _current_state while it runs, and, for an observer that logs it,
\* the ancestor path it reads from the engine.
Callback(st, slot, signal, idx, en, par) ==
    [obs |-> slot.obs, method |-> slot.method, signal |-> signal,
     state |-> slot.state, enum |-> slot.enum, current |-> st.current,
     tree |-> IF slot.method = "state_entered" /\ par.list[slot.obs].logs_tree
              THEN current_state_tree(idx, en, st.current).tree
              ELSE <<>>]

RunSlot(st, slot, signal, idx, en, par) ==
    IF slot.kind = "update_link_attrs"
    THEN _update_link_attrs(st, slot.state)
    ELSE [st EXCEPT !.delivered = Append(@, Callback(st, slot, signal, idx, en, par))]

\* F applied to the value of e, e being evaluated once.
Then(F(_), e) == CHOOSE r \in {F(v) : v \in {e}} : TRUE

\* Emission of a signal: the connected slots run in connection order.
RECURSIVE EmitFrom(_, _, _, _, _, _, _)
EmitFrom(st, slots, i, signal, idx, en, par) ==
    IF i > Len(slots) THEN st
    ELSE Then(LAMBDA s1 : EmitFrom(s1, slots, i + 1, signal, idx, en, par),
              RunSlot(st, slots[i], signal, idx, en, par))

Emit(st, slots, signal, idx, en, par) == EmitFrom(st, slots, 1, signal, idx, en, par)

----------------------------------------------------------------------------
(* Run time: QStateMachine *)

NoPayload == [kind |-> "none", num |-> -1, name |-> None, enum |-> NoEnum]

\* OptionTransition.eventTest: `e.arguments()[0] in self.option`, with
\* self.option = (num, option_state_name, option_state_enum).  A payload that
\* is itself a tuple (i, name) equals none of the three members.
OptionEventTest(option, payload) ==
    \/ payload.kind = "int" /\ payload.num = option.num
    \/ payload.kind = "str" /\ payload.name = option.name
    \/ payload.kind = "enum" /\ payload.enum = option.enum

\* eventTest that does not look at the signal of the event.
eventTestAnySignal(t, signal, payload) ==
    t.guarded => OptionEventTest(t.option, payload)

eventTest(t, signal, payload) ==
    /\ t.signal = signal
    /\ t.guarded => OptionEventTest(t.option, payload)

HasEnabled(qs, node, signal, payload) ==
    \E i \in 1..Len(qs[node].transitions) :
        eventTest(qs[node].transitions[i], signal, payload)

\* The first transition of `node`, in the order added, that accepts the event.
FirstEnabled(qs, node, signal, payload) ==
    LET ts == qs[node].transitions
        first == CHOOSE i \in 1..Len(ts) :
                     /\ eventTest(ts[i], signal, payload)
                     /\ \A j \in 1..(i - 1) : ~eventTest(ts[j], signal, payload)
    IN  ts[first]

Selected(qs, source, signal, payload) ==
    [found |-> TRUE, source |-> source,
     target |-> FirstEnabled(qs, source, signal, payload).target]

\* Transition selection in which the outermost active state with an enabled
\* transition wins.
SelectTransitionOutermost(qs, conf, signal, payload) ==
    IF \E k \in 1..Len(conf) : HasEnabled(qs, conf[k], signal, payload)
    THEN Selected(qs,
                  conf[CHOOSE k \in 1..Len(conf) :
                           /\ HasEnabled(qs, conf[k], signal, payload)
                           /\ \A j \in 1..(k - 1) :
                                  ~HasEnabled(qs, conf[j], signal, payload)],
                  signal, payload)
    ELSE [found |-> FALSE, source |-> NoNode, target |-> NoNode]

\* Transition selection: the deepest active state with an enabled
\* transition wins.  [found, source, target]
SelectTransition(qs, conf, signal, payload) ==
    IF \E k \in 1..Len(conf) : HasEnabled(qs, conf[k], signal, payload)
    THEN Selected(qs,
                  conf[CHOOSE k \in 1..Len(conf) :
                           /\ HasEnabled(qs, conf[k], signal, payload)
                           /\ \A j \in (k + 1)..Len(conf) :
                                  ~HasEnabled(qs, conf[j], signal, payload)],
                  signal, payload)
    ELSE [found |-> FALSE, source |-> NoNode, target |-> NoNode]

IsPrefix(a, b) == Len(a) <= Len(b) /\ SubSeq(b, 1, Len(a)) = a

\* Longest common prefix of two paths.
CommonPrefix(a, b) ==
    SubSeq(a, 1, CHOOSE n \in 0..Len(a) :
                     /\ n <= Len(b)
                     /\ SubSeq(a, 1, n) = SubSeq(b, 1, n)
                     /\ \A m \in (n + 1)..Len(a) :
                            m > Len(b) \/ SubSeq(a, 1, m) # SubSeq(b, 1, m))

\* Least common compound ancestor of source and target: the longest common
\* proper ancestor (the machine root is NoNode).
TransitionDomain(source, target) == CommonPrefix(Front(source), Front(target))

\* Initial-state descent below a state that is entered.
RECURSIVE Descent(_, _)
Descent(qs, node) ==
    IF qs[node].initial = NoNode THEN <<>>
    ELSE <<qs[node].initial>> \o Descent(qs, qs[node].initial)

\* EntrySet without the descent to the initial substates.
EntrySetNoDescent(qs, domain, target) ==
    [i \in 1..(Len(target) - Len(domain)) |-> SubSeq(target, 1, Len(domain) + i)]

\* States entered for `target` below `domain`, parents first.
EntrySet(qs, domain, target) ==
    [i \in 1..(Len(target) - Len(domain)) |-> SubSeq(target, 1, Len(domain) + i)]
    \o Descent(qs, target)

\* Active states left by a transition with the given domain, deepest first.
ExitSet(conf, domain) ==
    Reverse(SelectSeq(conf, LAMBDA n : Len(n) > Len(domain)))

RECURSIVE ExitStates(_, _, _, _, _, _, _)
ExitStates(st, qs, exits, i, idx, en, par) ==
    IF i > Len(exits) THEN st
    ELSE Then(LAMBDA s1 : ExitStates(s1, qs, exits, i + 1, idx, en, par),
              Emit(st, qs[exits[i]].exited, "exited", idx, en, par))

\* Entering a state emits its entered signal; entering a QFinalState below
\* a QState also makes that parent emit finished.
EnterState(st, qs, node, idx, en, par) ==
    IF qs[node].final /\ Front(node) # NoNode
    THEN Then(LAMBDA s1 : Emit(s1, qs[Front(node)].finished, "finished", idx, en, par),
              Emit(st, qs[node].entered, "entered", idx, en, par))
    ELSE Emit(st, qs[node].entered, "entered", idx, en, par)

RECURSIVE EnterStates(_, _, _, _, _, _, _)
EnterStates(st, qs, entries, i, idx, en, par) ==
    IF i > Len(entries) THEN st
    ELSE Then(LAMBDA s1 : EnterStates(s1, qs, entries, i + 1, idx, en, par),
              EnterState(st, qs, entries[i], idx, en, par))

\* isInFinalState that takes a QFinalState of any level for the machine's.
isInFinalStateAnyLevel(qs, conf) ==
    \E k \in 1..Len(conf) : qs[conf[k]].final

\* The machine is in a final state when a top-level QFinalState is active.
isInFinalState(qs, conf) ==
    \E k \in 1..Len(conf) : Len(conf[k]) = 1 /\ qs[conf[k]].final

MachineFinishedCallback(i) ==
    [obs |-> i, method |-> "machine_finished", signal |-> "finished",
     state |-> NoNode, enum |-> NoEnum, tree |-> <<>>]

\* machine.finished: the machine_finished of every connected observer.
EmitMachineFinished(st, m) ==
    [st EXCEPT !.delivered = @ \o [k \in 1..Len(m.finished) |->
                                       MachineFinishedCallback(m.finished[k])]]

\* After the entries: the machine emits finished and stops when a
\* top-level final state is active.
Completed(st, m, final, conf) ==
    [conf |-> conf,
     st |-> IF final THEN EmitMachineFinished(st, m) ELSE st,
     finished |-> final]

EnterAll(st, qs, m, kept, entries, idx, en, par) ==
    Then(LAMBDA s1 : Completed(s1, m, isInFinalState(qs, kept \o entries), kept \o entries),
         EnterStates(st, qs, entries, 1, idx, en, par))

\* One transition taken to completion: exits, entries, and the machine's
\* finished signal when a top-level final state was entered.
\* [conf, st, finished]
MicroStep(st, qs, m, conf, domain, target, idx, en, par) ==
    Then(LAMBDA s1 : EnterAll(s1, qs, m,
                              SelectSeq(conf, LAMBDA n : Len(n) <= Len(domain)),
                              EntrySet(qs, domain, target), idx, en, par),
         ExitStates(st, qs, ExitSet(conf, domain), 1, idx, en, par))

----------------------------------------------------------------------------
(* Programs: a top-level catalog, the Enum classes it reaches, the observers *)

CopiesOf(template, names) == [c \in names |-> template]

CalibrationEnums ==
    ("CalibrationStates" :> CalibrationStates)
    @@ CopiesOf(StandardStates, {copy_enum_name("CalibrationProcedure", k) : k \in 0..7})

FATSubNames ==
    {"FatSubProcedureStates_1", "FatSubProcedureStates_2", "FatSubProcedureStates_3",
     "FatSubProcedureStates_4", "FatSubProcedureStates_5", "FatSubProcedureStates_6",
     "FatVerifyingStates", "FatCompletingStates"}

FATProcedureEnums ==
    ("FATProcedureStates" :> FATProcedureStates)
    @@ CopiesOf(StandardStates, {copy_enum_name(n, 0) : n \in FATSubNames})

FATSuperEnums ==
    ("FATProdecureSuperStates" :> FATProdecureSuperStates) @@ FATProcedureEnums

Program(top, en, par) == [states_enum |-> top, enums |-> en, parents |-> par]

ShippedPrograms ==
    { Program("CalibrationStates", CalibrationEnums,
              ParentsList(<<CalibrationModel, ControllerMain>>)),
      Program("FATProcedureStates", FATProcedureEnums, ParentsList(<<FATProdedureModel>>)),
      Program("FATProdecureSuperStates", FATSuperEnums, ParentsList(<<FATProdedureModel>>)),
      Program("StandardStates", ("StandardStates" :> StandardStates),
              ParentsList(<<FATProdedureModel>>)),
      Program("StandardStates", ("StandardStates" :> StandardStates), ParentsNone) }

\* Small catalogs IDLE(initial) -> RUNNING -> DONE with a control state ERROR,
\* varied in the places the wiring algorithm branches on.
TestStates(p) ==
    << StateDescriptor("IDLE", TransitionsDescriptor("RUNNING", None, <<>>), None, TRUE, FALSE),
       StateDescriptor("RUNNING", TransitionsDescriptor("DONE", p.run_prev, p.run_optional),
                       None, FALSE, FALSE),
       StateDescriptor("DONE",
                       IF p.done_next = None THEN NoTransitions
                       ELSE TransitionsDescriptor(p.done_next, None, <<"ERROR">>),
                       None, FALSE, p.done_final),
       StateDescriptor("ERROR", TransitionsDescriptor(p.error_next, p.error_prev, <<>>),
                       None, FALSE, FALSE) >>

TestParams ==
    [run_optional : {<<>>, <<"ERROR">>, <<"DONE">>, <<"STOPPING">>},
     run_prev : {None, "ERROR"},
     done_next : {None, "IDLE", "ERROR"},
     done_final : BOOLEAN,
     error_next : {None, "IDLE", "NOWHERE"},
     error_prev : {None, "IDLE", "ERROR", "NOWHERE"}]

TestPrograms ==
    { Program("TestStates", ("TestStates" :> TestStates(p)), ParentsList(<<CalibrationModel>>))
      : p \in TestParams }

\* A composite state RUNNING whose sub-catalog ends in a final state, below
\* a top level IDLE(initial) -> RUNNING -> DONE(final) with a control state
\* ERROR.  The substate IDLE names its next target and may declare a
\* prev_state; the name ERROR exists at the top level only.
NestedSub(q) ==
    << StateDescriptor("IDLE", TransitionsDescriptor(q.sub_next, q.sub_prev, <<>>),
                       None, TRUE, FALSE),
       StateDescriptor("DONE", NoTransitions, None, FALSE, TRUE) >>

NestedStates ==
    << StateDescriptor("IDLE", TransitionsDescriptor("RUNNING", None, <<>>), None, TRUE, FALSE),
       StateDescriptor("RUNNING", TransitionsDescriptor("DONE", None, <<"ERROR">>),
                       "NestedSub", FALSE, FALSE),
       StateDescriptor("DONE", NoTransitions, None, FALSE, TRUE),
       StateDescriptor("ERROR", TransitionsDescriptor("IDLE", "IDLE", <<>>),
                       None, FALSE, FALSE) >>

NestedParams ==
    [sub_next : {"DONE", "ERROR"},
     sub_prev : {None, "ERROR"}]

NestedPrograms ==
    { Program("NestedStates",
              ("NestedStates" :> NestedStates) @@ ("NestedSub" :> NestedSub(q)),
              ParentsList(<<HookHandler, CalibrationModel>>))
      : q \in NestedParams }

Programs == ShippedPrograms \cup TestPrograms \cup NestedPrograms

----------------------------------------------------------------------------
(* Actions *)

Init ==
    /\ \E prog \in Programs :
           /\ enums = prog.enums
           /\ states_enum = prog.states_enum
           /\ parents = prog.parents
    /\ pc = "new"
    /\ index = <<>>
    /\ qstates = <<>>
    /\ machine = [initial |-> NoNode, finished |-> <<>>]
    /\ configuration = <<>>
    /\ current_state = NoNode
    /\ previous_state = NoNode
    /\ delivered = <<>>
    /\ result = <<>>
    /\ error = None
    /\ tests = <<>>

Constructed(r) ==
    /\ enums' = r.enums
    /\ error' = r.error
    /\ IF r.error # None
       THEN /\ pc' = "failed"
            /\ UNCHANGED <<index, qstates, machine>>
       ELSE /\ pc' = "constructed"
            /\ index' = r.index
            /\ qstates' = r.qstates
            /\ machine' = r.machine

\* StateMachineModel.__init__
Construct ==
    /\ pc = "new"
    /\ IF parents.is_none
       THEN \* `for parent in self._parents` over None
            /\ pc' = "failed"
            /\ error' = "TypeError"
            /\ UNCHANGED <<enums, index, qstates, machine>>
       ELSE Constructed(construct(enums, parents, states_enum))
    /\ UNCHANGED <<tests, states_enum, parents, configuration, current_state,
                   previous_state, delivered, result>>

EngineState == [current |-> current_state, previous |-> previous_state, delivered |-> <<>>]

Apply(step, running) ==
    /\ configuration' = step.conf
    /\ current_state' = step.st.current
    /\ previous_state' = step.st.previous
    /\ delivered' = step.st.delivered
    /\ pc' = IF step.finished THEN "finished" ELSE running

\* The event loop runs the start queued by self._machine.start(): the
\* machine enters its initial state.
Start ==
    /\ pc = "constructed"
    /\ machine.initial # NoNode
    /\ \E step \in {MicroStep(EngineState, qstates, machine, <<>>, NoNode,
                               machine.initial, index, enums, parents)} :
           Apply(step, "running")
    /\ error' = None
    /\ result' = <<>>
    /\ UNCHANGED <<enums, states_enum, parents, index, qstates, machine, tests>>

Taken(sel) ==
    IF pc = "running" /\ sel.found
    THEN MicroStep(EngineState, qstates, machine, configuration,
                   TransitionDomain(sel.source, sel.target), sel.target,
                   index, enums, parents)
    ELSE [conf |-> configuration, st |-> EngineState, finished |-> pc = "finished"]

\* What emitting a signal of the engine does: [conf, st, finished].  Only a
\* running machine has its transitions registered.
Dispatch(signal, payload) ==
    Then(Taken, SelectTransition(qstates, configuration, signal, payload))

\* Trigger that also takes every wired edge out of the states.
TriggerUnwiring(signal, payload) ==
    /\ pc \in {"constructed", "running", "finished"}
    /\ \E step \in {Dispatch(signal, payload)} : Apply(step, pc)
    /\ error' = None
    /\ result' = <<>>
    /\ qstates' = [n \in DOMAIN qstates |-> [qstates[n] EXCEPT !.transitions = <<>>]]
    /\ UNCHANGED <<enums, states_enum, parents, index, machine, tests>>

Trigger(signal, payload) ==
    /\ pc \in {"constructed", "running", "finished"}
    /\ \E step \in {Dispatch(signal, payload)} : Apply(step, pc)
    /\ error' = None
    /\ result' = <<>>
    /\ UNCHANGED <<enums, states_enum, parents, index, qstates, machine, tests>>

\* Largest option position tried by option payloads.
MaxOption == 2

OptionNames == <<"FAT_PROCEDURE_1", "FAT_PROCEDURE_2", "FAT_PROCEDURE_3", "FAT_PROCEDURE_4">>

TuplePayload(i, n) == [kind |-> "tuple", num |-> i, name |-> n, enum |-> NoEnum]
IntPayload(i) == [kind |-> "int", num |-> i, name |-> None, enum |-> NoEnum]
StrPayload(n) == [kind |-> "str", num |-> -1, name |-> n, enum |-> NoEnum]
EnumPayload(e) == [kind |-> "enum", num |-> -1, name |-> None, enum |-> e]

\* What to_option is emitted with: the tuple (i, name_i) of a position, a
\* tuple naming the wrong position, and a bare position, name or Enum.
Payloads ==
    {TuplePayload(i, OptionNames[i + 1]) : i \in 0..MaxOption}
    \cup {TuplePayload(0, OptionNames[2])}
    \cup {IntPayload(i) : i \in 0..MaxOption}
    \cup {StrPayload(OptionNames[i + 1]) : i \in 0..MaxOption}
    \cup {EnumPayload(<<"FATProcedureStates", "FAT_PROCEDURE_2">>)}

ToNext == Trigger("to_next", NoPayload)
ToPrevious == Trigger("to_previous", NoPayload)
ToOption == \E payload \in Payloads : Trigger("to_option", payload)
ToError == Trigger("to_error", NoPayload)
ToStopping == Trigger("to_stopping", NoPayload)
Skip == Trigger("skip", NoPayload)

IndexKeys == {index[i][1] : i \in 1..Len(index)}

\* self[item]: isinstance(QState, QFinalState) is False, so the Index is
\* always read by key; NoNode stands for KeyError.
getitem(idx, item) ==
    IF item.kind = "enum" THEN IndexGet(idx, item.enum) ELSE NoNode

\* The exception goto ends with: the lookup may raise KeyError; after it,
\* `self.machine` is not an attribute of the engine (the machine is
\* self._machine), nor are setInitialState and start.
goto(idx, item) ==
    IF getitem(idx, item) = NoNode THEN "KeyError" ELSE "AttributeError"

\* goto is tried with the identifier of the machine's initial state, of the
\* current and of the previous state, and with a QState instead of an Enum.
GotoArguments ==
    {[kind |-> "enum", enum |-> reverse_search(index, n), state |-> NoNode] :
        n \in {machine.initial, current_state, previous_state} \ {NoNode}}
    \cup {[kind |-> "state", enum |-> NoEnum, state |-> machine.initial]}

GotoItem(item) ==
    /\ pc \in {"constructed", "running", "finished"}
    /\ error' = goto(index, item)
    /\ delivered' = <<>>
    /\ result' = <<>>
    /\ UNCHANGED <<tests, enums, states_enum, parents, pc, index, qstates, machine,
                   configuration, current_state, previous_state>>

Goto == \E item \in GotoArguments : GotoItem(item)

Returned(r) ==
    /\ result' = r.tree
    /\ error' = r.error

\* Reading the current_state_tree property.
CurrentStateTree ==
    /\ pc \in {"constructed", "running", "finished"}
    /\ Returned(current_state_tree(index, enums, current_state))
    /\ delivered' = <<>>
    /\ UNCHANGED <<tests, enums, states_enum, parents, pc, index, qstates, machine,
                   configuration, current_state, previous_state>>

Next ==
    \/ Construct
    \/ Start
    \/ ToNext
    \/ ToPrevious
    \/ ToOption
    \/ ToError
    \/ ToStopping
    \/ Skip
    \/ Goto
    \/ CurrentStateTree

Spec == Init /\ [][Next]_vars

----------------------------------------------------------------------------
(* Only to_next is ever emitted.  The event loop eventually runs the queued *)
(* start, and the caller keeps emitting to_next.                            *)

NextOnly ==
    \/ Construct
    \/ Start
    \/ ToNext

SpecNext == Init /\ [][NextOnly]_vars /\ WF_vars(Start) /\ WF_vars(ToNext)

----------------------------------------------------------------------------
(* current_state_tree over arbitrary `parent` fields.  StateDescriptor.parent *)
(* is a plain writable dataclass field; the hierarchies below are the ones    *)
(* it can be set to over a catalog of MaxMembers members, cyclic ones         *)
(* included.                                                                  *)

MaxMembers == 3

MemberNames == <<"IDLE", "STARTING", "EXECUTE", "COMPLETE">>

ChainKeys == {<<"Chain", MemberNames[i]>> : i \in 1..MaxMembers}

ChainCatalog(parent_of) ==
    [i \in 1..MaxMembers |->
        [StateDescriptor(MemberNames[i], NoTransitions, None, i = 1, FALSE)
            EXCEPT !.parent = parent_of[i]]]

InitTree ==
    /\ \E parent_of \in [1..MaxMembers -> ChainKeys \cup {NoEnum}] :
           enums = ("Chain" :> ChainCatalog(parent_of))
    /\ states_enum = "Chain"
    /\ parents = ParentsList(<<>>)
    /\ pc = "running"
    /\ index = [i \in 1..MaxMembers |-> <<<<"Chain", MemberNames[i]>>, <<MemberNames[i]>>>>]
    /\ qstates = <<>>
    /\ machine = [initial |-> <<MemberNames[1]>>, finished |-> <<>>]
    /\ \E i \in 1..MaxMembers :
           /\ configuration = <<<<MemberNames[i]>>>>
           /\ current_state = <<MemberNames[i]>>
    /\ previous_state = NoNode
    /\ delivered = <<>>
    /\ result = <<>>
    /\ error = None
    /\ tests = <<>>

NextTree == CurrentStateTree

SpecTree == InitTree /\ [][NextTree]_vars

----------------------------------------------------------------------------
(* MyTestModel (models/test_model.py): a list of test names *)

\* Longest list of tests built.
MaxTests == 4

TestNames == {"Test 1", "Test 2", "Test 3"}

\* self.tests.append(test_name)
add_test(ts, test_name) == Append(ts, test_name)

\* list.remove: the first occurrence goes, the rest stays in order.
ListRemove(ts, test_name) ==
    [i \in 1..(Len(ts) - 1) |->
        IF i < (CHOOSE k \in 1..Len(ts) :
                    ts[k] = test_name /\ \A j \in 1..(k - 1) : ts[j] # test_name)
        THEN ts[i] ELSE ts[i + 1]]

\* if test_name in self.tests: self.tests.remove(test_name)
remove_test(ts, test_name) ==
    IF \E k \in 1..Len(ts) : ts[k] = test_name
    THEN ListRemove(ts, test_name)
    ELSE ts

EngineVars ==
    <<enums, states_enum, parents, pc, index, qstates, machine, configuration,
      current_state, previous_state, delivered, result, error>>

\* MyTestModel(): no engine is involved.
InitTests ==
    /\ tests = <<>>
    /\ enums = ("StandardStates" :> StandardStates)
    /\ states_enum = "StandardStates"
    /\ parents = ParentsList(<<>>)
    /\ pc = "new"
    /\ index = <<>>
    /\ qstates = <<>>
    /\ machine = [initial |-> NoNode, finished |-> <<>>]
    /\ configuration = <<>>
    /\ current_state = NoNode
    /\ previous_state = NoNode
    /\ delivered = <<>>
    /\ result = <<>>
    /\ error = None

AddTestNamed(test_name) ==
    /\ Len(tests) < MaxTests
    /\ tests' = add_test(tests, test_name)
    /\ UNCHANGED EngineVars

AddTest == \E test_name \in TestNames : AddTestNamed(test_name)

RemoveTestNamed(test_name) ==
    /\ tests' = remove_test(tests, test_name)
    /\ UNCHANGED EngineVars

RemoveTest == \E test_name \in TestNames : RemoveTestNamed(test_name)

NextTests ==
    \/ AddTest
    \/ RemoveTest

SpecTests == InitTests /\ [][NextTests]_vars

----------------------------------------------------------------------------
(* What the catalog declares, read from the descriptors alone *)

Last(path) == path[Len(path)]

Live == {"constructed", "running", "finished"}

\* The Enum class holding the member a node was created from.
RECURSIVE LevelOf(_, _, _)
LevelOf(en, top, node) ==
    IF Len(node) = 1 THEN top
    ELSE Desc(en, <<LevelOf(en, top, Front(node)), Last(Front(node))>>).sub_states

IdOf(en, top, node) == <<LevelOf(en, top, node), Last(node)>>

DescOf(en, top, node) == Desc(en, IdOf(en, top, node))

\* The identifiers of a node's ancestors and of the node, root first.
PathIds(en, top, node) ==
    [i \in 1..Len(node) |-> IdOf(en, top, SubSeq(node, 1, i))]

Active(node, conf) == \E k \in 1..Len(conf) : conf[k] = node

Sibling(node, name) == Append(Front(node), name)

\* The sibling a non-final state names as its next target (the first option
\* of a tuple), NoNode when it names none.
DeclaredNext(en, top, node) ==
    IF \/ DescOf(en, top, node).final
       \/ ~DescOf(en, top, node).transitions.present
       \/ DescOf(en, top, node).transitions.next_state = <<>>
    THEN NoNode
    ELSE Sibling(node, DescOf(en, top, node).transitions.next_state[1])

DeclaredPrev(en, top, node) == DescOf(en, top, node).transitions.prev_state

InitialOf(en, cls) ==
    en[cls][CHOOSE i \in 1..Len(en[cls]) : en[cls][i].initial].name

\* The initial substates below a composite state, outermost first.
RECURSIVE DeclaredDescent(_, _, _)
DeclaredDescent(en, top, node) ==
    IF DescOf(en, top, node).sub_states = None THEN <<>>
    ELSE <<Append(node, InitialOf(en, DescOf(en, top, node).sub_states))>>
         \o DeclaredDescent(en, top,
                            Append(node, InitialOf(en, DescOf(en, top, node).sub_states)))

DeclaredInitial(en, top) ==
    <<<<InitialOf(en, top)>>>> \o DeclaredDescent(en, top, <<InitialOf(en, top)>>)

Movers(en, top, conf) ==
    {k \in 1..Len(conf) : DeclaredNext(en, top, conf[k]) # NoNode}

Deepest(ks) == CHOOSE k \in ks : \A j \in ks : j <= k

MoveAt(en, top, conf, k) ==
    SubSeq(conf, 1, k - 1)
    \o <<DeclaredNext(en, top, conf[k])>>
    \o DeclaredDescent(en, top, DeclaredNext(en, top, conf[k]))

\* One step along the declared next chain: the innermost active state that
\* names a next target is replaced by that target (and the target's initial
\* substates); a chain that has ended stays where it is.
DeclaredStep(en, top, conf) ==
    IF Movers(en, top, conf) = {} THEN conf
    ELSE MoveAt(en, top, conf, Deepest(Movers(en, top, conf)))

TopFinal(en, top, conf) ==
    \E k \in 1..Len(conf) : Len(conf[k]) = 1 /\ DescOf(en, top, conf[k]).final

\* Longest declared chain that is followed.
MaxChain == 40

RECURSIVE ChainEndsFinal(_, _, _, _)
ChainEndsFinal(en, top, conf, n) ==
    \/ TopFinal(en, top, conf)
    \/ /\ n > 0
       /\ \E step \in {DeclaredStep(en, top, conf)} :
              step # conf /\ ChainEndsFinal(en, top, step, n - 1)

\* Number of parent hops from an identifier, counted up to DepthGuard + 1.
RECURSIVE Hops(_, _, _)
Hops(en, id, n) ==
    IF n > DepthGuard \/ Desc(en, id).parent = NoEnum THEN n
    ELSE Hops(en, Desc(en, id).parent, n + 1)

NamesOf(tr) ==
    {tr.next_state[i] : i \in 1..Len(tr.next_state)}
    \cup {tr.optional[i] : i \in 1..Len(tr.optional)}
    \cup (IF tr.prev_state = None THEN {} ELSE {tr.prev_state})

\* Every declared name resolves among the siblings, and every optional
\* target has its to_<name> signal.
WellFormed(en) ==
    \A cls \in DOMAIN en : \A i \in 1..Len(en[cls]) :
        en[cls][i].transitions.present =>
            /\ \A name \in NamesOf(en[cls][i].transitions) : IsMember(en, cls, name)
            /\ \A k \in 1..Len(en[cls][i].transitions.optional) :
                   _signal_format(en[cls][i].transitions.optional[k]) \in EngineSignals

\* T = current_state was entered from its sibling S = previous_state.
EnteredFromSibling ==
    /\ pc = "running"
    /\ current_state # NoNode
    /\ previous_state # NoNode
    /\ previous_state # current_state
    /\ Front(previous_state) = Front(current_state)

\* No transition out of an active state accepts the event.
NoEdgeWired(signal, payload) ==
    \A k \in 1..Len(configuration) :
        \A i \in 1..Len(qstates[configuration[k]].transitions) :
            \/ qstates[configuration[k]].transitions[i].signal # signal
            \/ /\ qstates[configuration[k]].transitions[i].guarded
               /\ ~OptionEventTest(qstates[configuration[k]].transitions[i].option, payload)

TriggerSignals ==
    {"to_next", "to_previous", "to_option", "to_error", "to_stopping", "skip"}

----------------------------------------------------------------------------
(* Claims *)

\* C1: when a state T that declares prev_override = P (P not T's own name)
\* has become current from a source state S, triggering previous makes P
\* the current state.
C1_PrevOverrideWins ==
    [][(/\ EnteredFromSibling
        /\ DeclaredPrev(enums, states_enum, current_state) \notin {None, Last(current_state)}
        /\ ToPrevious)
       => Active(Sibling(current_state, DeclaredPrev(enums, states_enum, current_state)),
                 configuration')]_vars

\* C2: when next has moved the engine from a non-final state S to its next
\* target T, and T declares no prev_override, triggering previous makes S
\* the current state again.
C2_NextThenPreviousReturns ==
    [][(/\ EnteredFromSibling
        /\ DeclaredNext(enums, states_enum, previous_state) = current_state
        /\ DeclaredPrev(enums, states_enum, current_state) = None
        /\ ToPrevious)
       => current_state' = previous_state]_vars

C3_NextStep ==
    (pc = "running" /\ ToNext)
    => /\ configuration' = DeclaredStep(enums, states_enum, configuration)
       /\ current_state' = Last(configuration')

C3_ChainEndsFinal ==
    /\ pc = "constructed"
    /\ ChainEndsFinal(enums, states_enum, DeclaredInitial(enums, states_enum), MaxChain)

\* C3: when only next is triggered, every next moves the engine one step
\* along the declared next chain (first option of a tuple; inside a
\* composite state the chain of its substates comes first), and when that
\* chain ends in the top-level final state the machine finishes.
C3_NextFollowsDeclaredChain ==
    /\ [][C3_NextStep]_vars
    /\ [](C3_ChainEndsFinal => <>(pc = "finished"))

\* The calibration chain has been walked with next down to COMPLETED.
C3_Witness ==
    /\ pc = "finished"
    /\ states_enum = "CalibrationStates"
    /\ current_state = <<"COMPLETED">>
    /\ previous_state = <<"COMPLETING", "COMPLETE">>

C4_NoEdgeOutOfFinal ==
    \A node \in DOMAIN qstates :
        DescOf(enums, states_enum, node).final => qstates[node].transitions = <<>>

\* C4: no transition is wired out of a final state, and once the machine has
\* finished in its top-level final state no operation changes the current
\* state, the previous state or the active configuration.
C4_FinalIsTerminal ==
    /\ [](pc \in Live => C4_NoEdgeOutOfFinal)
    /\ [][pc = "finished" =>
              /\ current_state' = current_state
              /\ previous_state' = previous_state
              /\ configuration' = configuration]_vars

\* A final state that declares a next target and an optional target is
\* current, and a trigger was emitted after the machine finished.
C4_Witness ==
    /\ pc = "finished"
    /\ DescOf(enums, states_enum, current_state).final
    /\ DescOf(enums, states_enum, current_state).transitions.present
    /\ DescOf(enums, states_enum, current_state).transitions.next_state # <<>>
    /\ delivered = <<>>
    /\ error = None
    /\ result = <<>>

\* C5: goto on a running machine with a state identifier of the catalog ends
\* without error, with the target as current state and no previous state.
C5_GotoRelocates ==
    [][\A item \in GotoArguments :
           (pc = "running" /\ item.kind = "enum" /\ GotoItem(item))
           => /\ error' = None
              /\ current_state' = getitem(index, item)
              /\ previous_state' = NoNode]_vars

\* C6: construction succeeds exactly when every declared name resolves and
\* every optional target has its signal.
C6_ConstructIffWellFormed ==
    (pc # "new" /\ ~parents.is_none) => (pc # "failed" <=> WellFormed(enums))

C7_Unwired(signal, payload) == pc \in Live /\ NoEdgeWired(signal, payload)

\* What the engine does with an unwired trigger: nothing.
C7_Ignored(signal, payload) ==
    C7_Unwired(signal, payload) =>
        /\ Dispatch(signal, payload).st.delivered = <<>>
        /\ Dispatch(signal, payload).st.current = current_state
        /\ Dispatch(signal, payload).st.previous = previous_state
        /\ Dispatch(signal, payload).conf = configuration

C7_Silent(signal) ==
    (C7_Unwired(signal, NoPayload) /\ Trigger(signal, NoPayload))
    => /\ error' = None
       /\ delivered' = <<>>
       /\ current_state' = current_state
       /\ previous_state' = previous_state

C8_IsAncestorPath(tree, node) ==
    /\ Len(tree) > 0
    /\ Last(tree) = reverse_search(index, node)
    /\ Desc(enums, tree[1]).parent = NoEnum
    /\ \A i \in 1..(Len(tree) - 1) : Desc(enums, tree[i + 1]).parent = tree[i]
    /\ tree = PathIds(enums, states_enum, node)

\* C8: whenever a state is current, current_state_tree is the root-to-leaf
\* ancestor path of the current state (for a substate of a composite:
\* <<top-level id, substate id>>): when read by the caller and when read by
\* an observer inside state_entered.
C8_TreeIsAncestorPath ==
    /\ current_state # NoNode =>
           /\ current_state_tree(index, enums, current_state).error = None
           /\ C8_IsAncestorPath(current_state_tree(index, enums, current_state).tree,
                                current_state)
    /\ result # <<>> => C8_IsAncestorPath(result, current_state)
    /\ \A i \in 1..Len(delivered) :
           (delivered[i].method = "state_entered" /\ parents.list[delivered[i].obs].logs_tree)
           => C8_IsAncestorPath(delivered[i].tree, delivered[i].state)

\* The tree was read while a substate of a composite state was current.
C8_Witness ==
    /\ pc = "running"
    /\ Len(current_state) = 2
    /\ Len(result) = 2

\* C9: when the parent chain of the current state is longer than the depth
\* guard, current_state_tree ends in an error and returns no path.
C9_DepthGuardIsFatal ==
    (pc = "running" /\ Hops(enums, reverse_search(index, current_state), 0) > DepthGuard)
    => result = <<>>

\* C10: while a state whose next_state is a tuple is current, option with
\* the payload (i, name_i) makes the i-th named target active.
C10_OptionPayloadSelects ==
    [][\A i \in 0..MaxOption :
           (/\ pc = "running"
            /\ DescOf(enums, states_enum, current_state).transitions.is_tuple
            /\ i < Len(DescOf(enums, states_enum, current_state).transitions.next_state)
            /\ Trigger("to_option",
                       TuplePayload(i, DescOf(enums, states_enum, current_state)
                                           .transitions.next_state[i + 1])))
           => Active(Sibling(current_state,
                             DescOf(enums, states_enum, current_state)
                                 .transitions.next_state[i + 1]),
                     configuration')]_vars

\* Some trigger of the engine is emitted.
AnyTrigger == ToNext \/ ToPrevious \/ ToOption \/ ToError \/ ToStopping \/ Skip

\* The step changed what the engine shows or told an observer something.
Moved ==
    \/ configuration' # configuration
    \/ current_state' # current_state
    \/ previous_state' # previous_state
    \/ delivered' # <<>>

\* C11: after the start the initial active state is current and no state is
\* previous; after every trigger that moves the machine from active state A
\* to active state B, B is current and A is previous.
C11_PointersFollowTransitions ==
    /\ [][Start => /\ current_state' = Last(configuration')
                   /\ previous_state' = NoNode]_vars
    /\ [][(pc = "running" /\ AnyTrigger /\ Moved)
          => /\ current_state' = Last(configuration')
             /\ previous_state' = Last(configuration)]_vars

PayloadsOf(signal) == IF signal = "to_option" THEN Payloads ELSE {NoPayload}

\* The calls of `method` that observer i received for `node`, carrying the
\* node and its identifier.
CallsFor(calls, i, method, node) ==
    {k \in 1..Len(calls) :
        /\ calls[k].obs = i
        /\ calls[k].method = method
        /\ calls[k].state = node
        /\ calls[k].enum = IdOf(enums, states_enum, node)}

CallsOf(calls, i, method) ==
    {k \in 1..Len(calls) : calls[k].obs = i /\ calls[k].method = method}

\* Observer i received `method` exactly once for each of `nodes`, and for
\* no other state.
OncePerState(calls, i, method, nodes) ==
    /\ \A k \in 1..Len(nodes) : Cardinality(CallsFor(calls, i, method, nodes[k])) = 1
    /\ Cardinality(CallsOf(calls, i, method)) = Len(nodes)

C12_Delivered(calls, exits, entries) ==
    \A i \in 1..Len(parents.list) :
        /\ "state_exited" \in parents.list[i].methods
               => OncePerState(calls, i, "state_exited", exits)
        /\ "state_entered" \in parents.list[i].methods
               => OncePerState(calls, i, "state_entered", entries)

C12_Transition(sel, signal, payload) ==
    (pc = "running" /\ sel.found /\ Trigger(signal, payload))
    => C12_Delivered(delivered',
                     ExitSet(configuration, TransitionDomain(sel.source, sel.target)),
                     EntrySet(qstates, TransitionDomain(sel.source, sel.target), sel.target))

\* C12: on every transition every observer that implements the generic
\* callbacks receives exactly one state_exited for each state that is exited
\* and exactly one state_entered for each state that is entered, carrying
\* the node and the identifier of that state.
C12_GenericCallbacksPerState ==
    [][\A signal \in TriggerSignals : \A payload \in PayloadsOf(signal) :
           C12_Transition(SelectTransition(qstates, configuration, signal, payload),
                          signal, payload)]_vars

C13_EntersTopFinal ==
    /\ TopFinal(enums, states_enum, configuration')
    /\ ~TopFinal(enums, states_enum, configuration)

\* C13: machine_finished is delivered to every observer exactly once, in the
\* step in which a final state of the outermost level is entered, and in no
\* other step: not before, not again afterwards, and not when a final state
\* inside a composite state is entered.
C13_MachineFinishedOnce ==
    /\ [](pc \in Live => (pc = "finished" <=> TopFinal(enums, states_enum, configuration)))
    /\ [][\A i \in 1..Len(parents.list) :
              Cardinality(CallsOf(delivered', i, "machine_finished"))
                  = IF C13_EntersTopFinal THEN 1 ELSE 0]_vars

\* The machine has just finished, having passed through the final substate
\* of a composite state, and both observers were told.
C13_Witness ==
    /\ pc = "finished"
    /\ states_enum = "NestedStates"
    /\ previous_state = <<"RUNNING", "DONE">>
    /\ current_state = <<"DONE">>
    /\ Len(parents.list) = 2
    /\ \A i \in 1..Len(parents.list) :
           Cardinality(CallsOf(delivered, i, "machine_finished")) = 1

\* C14: construction without observers (parents omitted) succeeds without
\* error.
C14_NoObserversConstructs ==
    (pc # "new" /\ parents.is_none) => (pc # "failed" /\ error = None)

\* C15: once the machine has started, the active states form a single chain:
\* one top-level state, below every active composite state exactly one of
\* its substates, and nothing below a state that is not composite.
C15_SingleActiveChain ==
    pc \in {"running", "finished"} =>
        /\ Len(configuration) >= 1
        /\ Len(configuration[1]) = 1
        /\ \A k \in 1..(Len(configuration) - 1) :
               Front(configuration[k + 1]) = configuration[k]
        /\ \A k \in 1..Len(configuration) :
               (DescOf(enums, states_enum, configuration[k]).sub_states # None)
                   <=> k < Len(configuration)

\* A composite state and one of its substates are active, after a
\* transition.
C15_Witness ==
    /\ pc = "running"
    /\ Len(configuration) = 2
    /\ DescOf(enums, states_enum, configuration[1]).sub_states # None
    /\ previous_state # NoNode
    /\ Front(previous_state) = Front(current_state)

\* The identifiers in the Index whose state is composite.
Composites ==
    {i \in 1..Len(index) : Desc(enums, index[i][1]).sub_states # None}

\* C16: after construction every substate has its own identifier in the
\* Index, whose parent is the identifier of the composite state the node
\* lies in and which belongs to that composite's sub-catalog; no two
\* composite states share a sub-catalog, no identifier and no node occurs
\* twice in the Index, and the Index holds one entry per node.
C16_ClonesAreIndependent ==
    pc \in Live =>
        /\ \A i, j \in 1..Len(index) :
               i # j => /\ index[i][1] # index[j][1]
                        /\ index[i][2] # index[j][2]
        /\ DOMAIN qstates = {index[i][2] : i \in 1..Len(index)}
        /\ \A i \in 1..Len(index) :
               Len(index[i][2]) >= 2 =>
                   \E j \in 1..Len(index) :
                       /\ index[j][2] = Front(index[i][2])
                       /\ Desc(enums, index[i][1]).parent = index[j][1]
                       /\ Desc(enums, index[j][1]).sub_states = index[i][1][1]
        /\ \A i, j \in Composites :
               i # j => Desc(enums, index[i][1]).sub_states
                            # Desc(enums, index[j][1]).sub_states

\* A substate of CALIBRATION_2, whose sub-catalog is the second copy made
\* under the name CalibrationProcedure, is current.
C16_Witness ==
    /\ pc = "running"
    /\ states_enum = "CalibrationStates"
    /\ Len(current_state) = 2
    /\ current_state[1] = "CALIBRATION_2"
    /\ reverse_search(index, current_state)[1] = "CalibrationProcedure1"

\* C17: after remove_test(x) the name x is no longer in tests, however often
\* it was added before, and remove_test of a name that is not in tests
\* leaves tests as it was.
C17_RemovedIsGone ==
    [][\A x \in TestNames :
           RemoveTestNamed(x)
           => /\ \A k \in 1..Len(tests') : tests'[k] # x
              /\ (\A k \in 1..Len(tests) : tests[k] # x) => tests' = tests]_vars

Elements(seq) == {seq[k] : k \in 1..Len(seq)}

\* The states on which `event` happens in a transition with the given exits
\* and entries; a composite state finishes when its final substate is
\* entered.
StatesOf(event, exits, entries) ==
    CASE event = "entered" -> Elements(entries)
      [] event = "exited" -> Elements(exits)
      [] OTHER -> {Front(n) : n \in {m \in Elements(entries) :
                                        qstates[m].final /\ Len(m) >= 2}}

\* A call of a name-convention hook ran on the event its name states.
C18_OnItsEvent(call) ==
    call.method \notin StateEventHandlerMethods
    => call.method = _format_state_substate(enums, call.enum, call.signal)

\* Every name-convention hook an observer implements for a state on which
\* the event happened was invoked for it.
C18_Invoked(calls, exits, entries) ==
    \A i \in 1..Len(parents.list) : \A event \in {"entered", "exited", "finished"} :
        \A node \in StatesOf(event, exits, entries) :
            _format_state_substate(enums, IdOf(enums, states_enum, node), event)
                \in parents.list[i].methods
            => \E k \in 1..Len(calls) :
                   /\ calls[k].obs = i
                   /\ calls[k].state = node
                   /\ calls[k].signal = event
                   /\ calls[k].method
                          = _format_state_substate(enums, IdOf(enums, states_enum, node), event)

C18_Transition(sel, signal, payload) ==
    (pc = "running" /\ sel.found /\ Trigger(signal, payload))
    => C18_Invoked(delivered',
                   ExitSet(configuration, TransitionDomain(sel.source, sel.target)),
                   EntrySet(qstates, TransitionDomain(sel.source, sel.target), sel.target))

\* C18: a name-convention hook state_<name>_<event> (state_<parent>__<name>_<event>
\* for a substate) is invoked only on the event its name states, and it is
\* invoked whenever that event happens on its state.
C18_HooksFireOnTheirEvent ==
    /\ [](\A k \in 1..Len(delivered) : C18_OnItsEvent(delivered[k]))
    /\ [][\A signal \in TriggerSignals : \A payload \in PayloadsOf(signal) :
              C18_Transition(SelectTransition(qstates, configuration, signal, payload),
                             signal, payload)]_vars

\* Every wired transition leads to a sibling of its source state.
EdgesStayAmongSiblings ==
    \A node \in DOMAIN qstates :
        \A i \in 1..Len(qstates[node].transitions) :
            Front(qstates[node].transitions[i].target) = Front(node)

\* Some state declares a name that none of its siblings bears.
SomeNameUnresolved(en) ==
    \E cls \in DOMAIN en : \E i \in 1..Len(en[cls]) :
        /\ en[cls][i].transitions.present
        /\ \E name \in NamesOf(en[cls][i].transitions) : ~IsMember(en, cls, name)

\* C19: every wired edge connects two states with the same parent, and a
\* catalog in which a declared name has no matching sibling is not
\* constructed, whether or not a state of that name exists at another level.
C19_ResolutionIsScoped ==
    (pc # "new" /\ ~parents.is_none) =>
        /\ pc \in Live => EdgesStayAmongSiblings
        /\ SomeNameUnresolved(enums) => pc = "failed"

\* C20: while a state that declares its own name as prev_state is current, at
\* the top level or as a substate, triggering previous changes neither the
\* current state nor any active ancestor.
C20_OwnNameBlocksPrevious ==
    [][(/\ pc = "running"
        /\ DescOf(enums, states_enum, current_state).transitions.present
        /\ DeclaredPrev(enums, states_enum, current_state) = Last(current_state)
        /\ ToPrevious)
       => /\ current_state' = current_state
          /\ configuration' = configuration]_vars

\* The node paths the catalog tree declares below `prefix`, one per state
\* descriptor of class cls and of the sub-catalogs under it.
RECURSIVE CatalogPaths(_, _, _)
CatalogPaths(en, cls, prefix) ==
    UNION {{Append(prefix, en[cls][i].name)}
           \cup (IF en[cls][i].sub_states = None THEN {}
                 ELSE CatalogPaths(en, en[cls][i].sub_states, Append(prefix, en[cls][i].name)))
           : i \in 1..Len(en[cls])}

C21_OneNodePerDescriptor ==
    /\ {index[i][2] : i \in 1..Len(index)} = CatalogPaths(enums, states_enum, <<>>)
    /\ Len(index) = Cardinality(CatalogPaths(enums, states_enum, <<>>))
    /\ DOMAIN qstates = CatalogPaths(enums, states_enum, <<>>)
    /\ \A i \in 1..Len(index) :
           index[i][1] = IdOf(enums, states_enum, index[i][2])
    /\ \A i, j \in 1..Len(index) : index[i][1] = index[j][1] => i = j

C21_RoundTrip(id) == reverse_search(index, IndexGet(index, id)) = id

\* C21: after construction the Index holds exactly one node per state
\* descriptor of the catalog tree, at every level, under that descriptor's
\* identifier; reverse lookup of the node stored for an identifier returns
\* the identifier; and whenever a state is current, current_state_enum is the
\* identifier under which the Index stores current_state.
C21_IndexIsBijection ==
    pc \in Live =>
        /\ C21_OneNodePerDescriptor
        /\ pc = "constructed" => \A i \in 1..Len(index) : C21_RoundTrip(index[i][1])
        /\ \A k \in 1..Len(configuration) :
               C21_RoundTrip(IdOf(enums, states_enum, configuration[k]))
        /\ current_state # NoNode =>
               /\ current_state_enum # NoEnum
               /\ IndexGet(index, current_state_enum) = current_state
               /\ current_state_enum = IdOf(enums, states_enum, current_state)

\* A state three levels deep is current: a substate of FAT_PROCEDURE_1, which
\* itself lies in the composite state EXECUTE.
C21_Witness ==
    /\ pc = "running"
    /\ states_enum = "FATProdecureSuperStates"
    /\ Len(current_state) = 3
    /\ current_state_enum = <<"FatSubProcedureStates_1", "STARTING">>

\* The engine fields that construction sets and that stay as built: the
\* catalogs with their parent back-references, the Index, the states with
\* their wired edges and connected callbacks, the machine, the observers.
Built == <<enums, states_enum, parents, index, qstates, machine>>

\* C23: after construction no trigger (next, previous, option, error,
\* stopping, skip) and no other operation changes the set of states, the
\* Index, a parent back-reference or a wired edge; of the engine's fields a
\* trigger changes the current and the previous state only.
C23_TriggersKeepTheStructure ==
    [][(pc \in Live) => UNCHANGED Built]_vars

\* A named trigger has moved the calibration machine out of a substate of
\* CALIBRATION_1 into that composite's ERROR substate.
C23_Witness ==
    /\ pc = "running"
    /\ states_enum = "CalibrationStates"
    /\ current_state = <<"CALIBRATION_1", "ERROR">>
    /\ previous_state = <<"CALIBRATION_1", "STARTING">>
    /\ delivered # <<>>

\* What an observer finds when its state_entered runs for a state: the
\* engine's current state is that state, current_state_enum is its
\* identifier, and the ancestor path it reads ends with that identifier.
C24_SeesEnteredState(call) ==
    /\ call.current = call.state
    /\ reverse_search(index, call.current) = call.enum
    /\ parents.list[call.obs].logs_tree =>
           /\ call.tree # <<>>
           /\ Last(call.tree) = call.enum
           /\ call.tree = PathIds(enums, states_enum, call.state)

\* C24: the engine updates its pointers before it notifies the observers:
\* whenever state_entered runs for identifier X, current_state_enum is X
\* already, and current_state_tree read inside the callback is the ancestor
\* path of X, not that of the state just left.
C24_PointersUpdatedBeforeCallbacks ==
    \A k \in 1..Len(delivered) :
        delivered[k].method = "state_entered" => C24_SeesEnteredState(delivered[k])

\* The latest trigger has entered the composite state FAT_PROCEDURE_1 and
\* its initial substate, and the observer logged the path on both entries.
C24_Witness ==
    /\ pc = "running"
    /\ states_enum = "FATProcedureStates"
    /\ current_state = <<"FAT_PROCEDURE_1", "IDLE">>
    /\ previous_state = <<"FAT_PROCEDURE_1">>
    /\ Cardinality(CallsOf(delivered, 1, "state_entered")) = 2
    /\ delivered[Len(delivered)].tree
           = <<<<"FATProcedureStates", "FAT_PROCEDURE_1">>,
               <<"FatSubProcedureStates_1", "IDLE">>>>

\* The step entered `node`: its entered signal was emitted.
EnteredBy(calls, node) ==
    \E k \in 1..Len(calls) : calls[k].signal = "entered" /\ calls[k].state = node

\* Below an active composite state that the step entered, the active
\* substate is the initial state of the composite's sub-catalog.
C25_EnteredAtInitial(conf, calls) ==
    \A k \in 1..Len(conf) :
        (/\ DescOf(enums, states_enum, conf[k]).sub_states # None
         /\ EnteredBy(calls, conf[k]))
        => /\ k < Len(conf)
           /\ conf[k + 1]
                  = Append(conf[k],
                           InitialOf(enums, DescOf(enums, states_enum, conf[k]).sub_states))

\* C25: composite states keep no history: whenever a step enters a composite
\* state (the start, next, previous, option or a named trigger), whichever
\* substate was active when the composite was last left, the substate that
\* is active after the step is the initial state of its sub-catalog.
C25_NoHistory ==
    [][(pc \in {"constructed", "running"} /\ ~parents.is_none)
       => C25_EnteredAtInitial(configuration', delivered')]_vars

\* previous has led from CALIBRATION_2 back into CALIBRATION_1, which was
\* left by next from its substate COMPLETE: its substate IDLE is active.
C25_Witness ==
    /\ pc = "running"
    /\ states_enum = "CalibrationStates"
    /\ configuration = <<<<"CALIBRATION_1">>, <<"CALIBRATION_1", "IDLE">>>>
    /\ \E k \in 1..Len(delivered) :
           /\ delivered[k].signal = "exited"
           /\ delivered[k].state = <<"CALIBRATION_2">>

\* The active state at depth k has an edge for the event and no active state
\* below it has one.
DeepestWithEdge(k, signal, payload) ==
    /\ HasEnabled(qstates, configuration[k], signal, payload)
    /\ \A j \in (k + 1)..Len(configuration) :
           ~HasEnabled(qstates, configuration[j], signal, payload)

\* The step replaced the active state at depth k by the target of its first
\* edge for the event; the active states above it stayed active, and none of
\* them was exited or entered.
C26_ConsumedAt(k, signal, payload, step) ==
    /\ Len(step.conf) >= k
    /\ SubSeq(step.conf, 1, k - 1) = SubSeq(configuration, 1, k - 1)
    /\ step.conf[k] = FirstEnabled(qstates, configuration[k], signal, payload).target
    /\ \A c \in 1..Len(step.st.delivered) :
           step.st.delivered[c].signal \in {"entered", "exited"}
           => \A j \in 1..(k - 1) : step.st.delivered[c].state # configuration[j]

C26_Consumed(signal, payload) ==
    pc = "running" =>
        \A step \in {Dispatch(signal, payload)} :
            \A k \in 1..Len(configuration) :
                DeepestWithEdge(k, signal, payload)
                => C26_ConsumedAt(k, signal, payload, step)

\* error while a substate that has an edge for it is active: the composite
\* stays active and its own ERROR substate becomes active.
C26_ErrorStaysInside ==
    (/\ pc = "running"
     /\ Len(configuration) >= 2
     /\ HasEnabled(qstates, Last(configuration), "to_error", NoPayload)
     /\ ToError)
    => /\ Front(configuration') = Front(configuration)
       /\ Last(configuration') = Sibling(Last(configuration), "ERROR")

\* next while a substate without any edge is active and the composite
\* declares a next target: the composite is left for that target.
C26_NextAdvancesComposite ==
    (/\ pc = "running"
     /\ Len(configuration) >= 2
     /\ qstates[Last(configuration)].transitions = <<>>
     /\ DeclaredNext(enums, states_enum, Front(Last(configuration))) # NoNode
     /\ ToNext)
    => /\ Len(configuration') >= Len(configuration) - 1
       /\ configuration'[Len(configuration) - 1]
              = DeclaredNext(enums, states_enum, Front(Last(configuration)))
       /\ SubSeq(configuration', 1, Len(configuration) - 2)
              = SubSeq(configuration, 1, Len(configuration) - 2)

\* C26: a trigger is consumed by the deepest active state that has an edge
\* for it: that state is replaced by the edge's target while every active
\* state above it stays active, neither exited nor entered (error inside a
\* composite leads to the composite's own ERROR substate); the composite's
\* own edge fires only when no active substate has one (next in the
\* substate COMPLETE advances the composite).
C26_DeepestStateConsumes ==
    /\ [](/\ \A signal \in TriggerSignals : C26_Consumed(signal, NoPayload)
          /\ \A payload \in Payloads : C26_Consumed("to_option", payload))
    /\ [][C26_ErrorStaysInside /\ C26_NextAdvancesComposite]_vars

\* error was triggered inside CALIBRATION_1: its ERROR substate is current,
\* the composite is still active and was neither exited nor entered.
C26_Witness ==
    /\ pc = "running"
    /\ states_enum = "CalibrationStates"
    /\ configuration = <<<<"CALIBRATION_1">>, <<"CALIBRATION_1", "ERROR">>>>
    /\ previous_state = <<"CALIBRATION_1", "EXECUTE">>
    /\ \A k \in 1..Len(delivered) : delivered[k].state # <<"CALIBRATION_1">>

ShippedCatalogs ==
    {"StandardStates", "CalibrationStates", "FATProcedureStates", "FATProdecureSuperStates"}

Aborting(node) == node # NoNode /\ Last(node) \in {"ABORTING", "ABORTED"}

\* C27: in the shipped catalogs no sequence of the triggers next, previous,
\* option, error and stopping from the initial state makes ABORTING or
\* ABORTED the current state or an active state, at any level.
C27_AbortingIsUnreachable ==
    states_enum \in ShippedCatalogs =>
        /\ ~Aborting(current_state)
        /\ \A k \in 1..Len(configuration) : ~Aborting(configuration[k])

====
